---- MODULE Spec2Model ----
\* Pagination and ordering engine of fetch_messages.py:
\*   - the ordering key and the per-record normaliser (pure functions),
\*   - ConversationPager (cached random access by cursor),
\*   - iter_conversation_pages / iter_enriched_messages (one-pass streaming).
\* The remote API (fetch_conversation_page) is the environment: every call
\* answers FAILURE or any page of ServerResponses, independently of earlier
\* answers for the same cursor.
EXTENDS Integers, Sequences, FiniteSets, TLC

\* ---------------------------------------------------------------------------
\* Bounds of the model
\* ---------------------------------------------------------------------------
\* Largest number of underlying fetches one ConversationPager is followed for.
MaxPagerFetches == 3
\* Largest number of page fetches one streaming traversal is followed for.
MaxFetches == 3

\* ---------------------------------------------------------------------------
\* Values
\* ---------------------------------------------------------------------------
\* Python's None (an absent field, the first-page cursor).
None == "<None>"

\* EPOCH = datetime(1970, 1, 1, tzinfo=timezone.utc), in seconds since itself.
EPOCH == 0

\* Cursor URLs the server hands out.
Urls == {"u1", "u2"}
\* Request cursors of ConversationPager.fetch_page.
Cursors == {None} \cup Urls

\* --order values and --page-limit values (type=int, so negatives parse too).
Orders == {"asc", "desc"}
PageLimits == {-1, 0, 1, 2}

\* created_time strings that datetime.strptime(value, "%Y-%m-%dT%H:%M:%S%z")
\* accepts, with the instant each denotes (seconds since EPOCH). Two strings
\* with different UTC offsets denote the same instant.
ParsedTimes ==
    [t \in {"1969-12-31T23:59:59+0000",
            "1970-01-01T00:00:00+0000", "1970-01-01T01:00:00+0100",
            "1970-01-01T00:00:01+0000"} |->
        CASE t = "1969-12-31T23:59:59+0000" -> -1
          [] t = "1970-01-01T00:00:00+0000" -> 0
          [] t = "1970-01-01T01:00:00+0100" -> 0
          [] t = "1970-01-01T00:00:01+0000" -> 1]

\* Message identifiers, with their rank in Python's string order.
IdRank == [i \in {"", "a", "b"} |-> CASE i = "" -> 0 [] i = "a" -> 1 [] i = "b" -> 2]

\* Raw records of a page. isdict = FALSE is a JSON value that is no object.
Rec(d, i, t) == [isdict |-> d, id |-> i, created_time |-> t]
MsgA == Rec(TRUE, "a", None)
MsgB == Rec(TRUE, "a", "1970-01-01T01:00:00+0100")
MsgC == Rec(TRUE, "b", "1970-01-01T00:00:00+0000")
MsgD == Rec(TRUE, "a", "1970-01-01T00:00:01+0000")
MsgE == Rec(TRUE, "b", "1970-01-01T00:00:01+0000")
MsgF == Rec(TRUE, "b", "yesterday")
MsgP == Rec(TRUE, "b", "1969-12-31T23:59:59+0000")
BadEmptyId == Rec(TRUE, "", "1970-01-01T00:00:01+0000")
BadNoId == Rec(TRUE, None, None)
BadNotDict == Rec(FALSE, None, None)

\* The "data" lists the server may answer with.
PageData ==
    { <<>>,
      <<BadEmptyId>>,
      <<MsgD, MsgA>>,
      <<MsgE, MsgC>>,
      <<MsgA, MsgB>>,
      <<MsgB, MsgA>>,
      <<BadNotDict, MsgF, BadNoId>>,
      <<MsgC, MsgD, MsgB>> }

\* ---------------------------------------------------------------------------
\* Pure functions
\* ---------------------------------------------------------------------------
\* parse_created_time: <<>> for None, <<instant>> for a datetime.
parse_created_time(value) ==
    IF value = None \/ value = "" THEN <<>>
    ELSE IF value \in DOMAIN ParsedTimes THEN <<ParsedTimes[value]>>
    ELSE <<>>

\* A normaliser that lets every mapping through, whatever its id.
normalize_messageAnyMapping(message) ==
    IF ~message.isdict THEN <<>> ELSE <<message>>

\* normalize_message: <<>> for None, <<dict(message)>> otherwise.
normalize_message(message) ==
    IF ~message.isdict THEN <<>>
    ELSE IF message.id = None \/ message.id = "" THEN <<>>
    ELSE <<message>>

\* A loop that gives up the whole page at the first rejected record.
RECURSIVE NormalizeAllAbort(_)
NormalizeAllAbort(messages) ==
    IF messages = <<>> THEN <<>>
    ELSE IF normalize_message(Head(messages)) = <<>> THEN <<>>
    ELSE IF Len(NormalizeAllAbort(Tail(messages))) < Len(Tail(messages)) THEN <<>>
    ELSE <<Head(messages)>> \o NormalizeAllAbort(Tail(messages))

\* The loop "for message in ...: normalized = normalize_message(message);
\* if normalized is not None: append".
RECURSIVE NormalizeAll(_)
NormalizeAll(messages) ==
    IF messages = <<>> THEN <<>>
    ELSE normalize_message(Head(messages)) \o NormalizeAll(Tail(messages))

\* Python's tuple comparison of two (datetime, str) keys.
KeyLess(k1, k2) ==
    \/ k1[1] < k2[1]
    \/ k1[1] = k2[1] /\ IdRank[k1[2]] < IdRank[k2[2]]

\* A key lambda whose fallback for a missing timestamp lies after the epoch.
keyMissingLater(msg) ==
    LET parsed == parse_created_time(msg.created_time)
    IN  << IF parsed = <<>> THEN EPOCH + 1 ELSE parsed[1],
           IF msg.id = None THEN "" ELSE msg.id >>

\* iter_enriched_messages' key lambda.
key(msg) ==
    LET parsed == parse_created_time(msg.created_time)
    IN  << IF parsed = <<>> THEN EPOCH ELSE parsed[1],
           IF msg.id = None THEN "" ELSE msg.id >>

\* key_func without its second component: ties on the timestamp stay unsorted.
key_funcNoId(msg) ==
    LET parsed == parse_created_time(msg.created_time)
    IN  << IF parsed = <<>> THEN EPOCH ELSE parsed[1], "" >>

\* ConversationPager.fetch_page's key_func lambda.
key_func(msg) ==
    LET parsed == parse_created_time(msg.created_time)
    IN  << IF parsed = <<>> THEN EPOCH ELSE parsed[1],
           IF msg.id = None THEN "" ELSE msg.id >>

\* list.sort(key=..., reverse=...): the keys are computed first, one per
\* element, then the (key, element) pairs are sorted. The sort is stable, and
\* with reverse=True equal elements keep their original relative order too:
\* x goes behind every element that does not have to follow it.
RECURSIVE InsertSorted(_, _, _)
InsertSorted(x, sorted, reverse) ==
    IF sorted = <<>> THEN <<x>>
    ELSE LET h == Head(sorted)
             xFirst == IF reverse THEN KeyLess(h.k, x.k) ELSE KeyLess(x.k, h.k)
         IN  IF xFirst THEN <<x>> \o sorted
             ELSE <<h>> \o InsertSorted(x, Tail(sorted), reverse)

RECURSIVE SortFrom(_, _, _)
SortFrom(todo, acc, reverse) ==
    IF todo = <<>> THEN acc
    ELSE SortFrom(Tail(todo), InsertSorted(Head(todo), acc, reverse), reverse)

\* keys[i] is the key of list[i].
ListSort(keys, list, reverse) ==
    LET pairs == [i \in 1..Len(list) |-> [k |-> keys[i], v |-> list[i]]]
        sorted == SortFrom(pairs, <<>>, reverse)
    IN  [i \in 1..Len(list) |-> sorted[i].v]

\* ---------------------------------------------------------------------------
\* The remote API as seen through fetch_conversation_page
\* ---------------------------------------------------------------------------
\* paging dictionaries of an answer.
Pagings ==
    { [next |-> None, previous |-> None],
      [next |-> "u1", previous |-> None],
      [next |-> "u2", previous |-> "u1"],
      [next |-> "",   previous |-> "u2"] }

\* The (data, paging) answers of fetch_conversation_page; FAILURE, the
\* (None, None) answer, is a separate branch of every caller.
ServerResponses == [data : PageData, paging : Pagings]

\* The answers a ConversationPager is followed with: an empty page, a page of
\* two messages with equal keys, an unsorted page with a malformed record.
PagerPageData ==
    { <<>>,
      <<MsgA, MsgB>>,
      <<MsgC, BadEmptyId, MsgD, MsgB>> }

PagerResponses == [data : PagerPageData, paging : Pagings]

\* ---------------------------------------------------------------------------
\* State
\* ---------------------------------------------------------------------------
VARIABLES
    \* ConversationPager: self._order, self._page_limit, self._cache, self._fetched
    self_order, self_page_limit, self_cache, self_fetched,
    \* the most recent fetch_page call: its argument, the branch it took
    \* ("none" before the first call) and its return value (<<>> is None)
    page_url, outcome, result,
    \* per cursor, the number of fetch_conversation_page calls the pager made,
    \* and how many of them answered a page
    fetch_calls, fetch_ok,
    \* per cursor, the first Page fetch_page returned for it
    returned,
    \* per cached cursor, the answer the server gave when it was cached
    served,
    \* iter_enriched_messages(conversation_id, token, order, page_limit)
    order, page_limit,
    \* where the traversal stands: "pages" at the head of the while loop of
    \* iter_conversation_pages, "resume" suspended at its yield, "yield"
    \* handing messages to the consumer, "done" exhausted ("idle": not started)
    pc,
    \* iter_conversation_pages: url, page_count, and paging.get("next") of the
    \* page it is suspended on
    url, page_count, paging_next,
    \* iter_enriched_messages: collected (order "asc"), detailed_page (else),
    \* and how many messages of the list being yielded are out already
    collected, detailed_page, pos,
    \* the messages yielded to the consumer so far
    yielded,
    \* the data of the pages fetch_conversation_page answered, in fetch order
    fetched_pages,
    \* the number of fetch_conversation_page calls, failures included
    stream_fetches,
    \* why iter_conversation_pages returned ("no" while it has not)
    ended,
    \* a function applied on its own: its name ("none": no such application),
    \* whether it has been called, the argument object and the outcome
    fn, called, arg, ret,
    \* main() in console mode: where it stands ("idle": not running), the
    \* position of the for loop in the conversation ids, and per conversation
    \* left behind how its traversal went
    main_pc, conv_index, conv_log,
    \* ConversationPanel: whether it is mounted ("idle": no panel),
    \* self._current_page (<<>> is None), self._current_key,
    \* self._page_numbers, self._history_links and the two buttons' disabled
    panel_pc, current_page, current_key, page_numbers, history_links,
    prev_disabled, next_disabled,
    \* the page_number last handed to _populate_table (0: none yet), the
    \* handler that ran last with the direction it loaded in, the number on
    \* display when it started, and whether it put a page on display
    page_number, last_step, from_number, loaded

pagerVars == <<self_order, self_page_limit, self_cache, self_fetched,
               page_url, outcome, result, fetch_calls, fetch_ok,
               returned, served>>

streamVars == <<order, page_limit, pc, url, page_count, paging_next,
                collected, detailed_page, pos, yielded, fetched_pages,
                stream_fetches, ended>>

fnVars == <<fn, called, arg, ret>>

mainVars == <<main_pc, conv_index, conv_log>>

panelVars == <<panel_pc, current_page, current_key, page_numbers, history_links,
               prev_disabled, next_disabled, page_number, last_step,
               from_number, loaded>>

vars == <<pagerVars, streamVars, fnVars, mainVars, panelVars>>

Max(a, b) == IF a >= b THEN a ELSE b

\* A function extended or overwritten at one point (dict[key] = value).
DictSet(d, k, v) == [x \in DOMAIN d \cup {k} |-> IF x = k THEN v ELSE d[x]]

EmptyDict == [x \in {} |-> x]

\* All fetch_conversation_page calls the pager made (the cursor "" is asked
\* for by the table UI only).
TotalFetchCalls ==
    fetch_calls[None] + fetch_calls["u1"] + fetch_calls["u2"]
        + (IF "" \in DOMAIN fetch_calls THEN fetch_calls[""] ELSE 0)

\* No function is applied on its own.
FnIdle ==
    /\ fn = "none"
    /\ called = FALSE
    /\ arg = <<>>
    /\ ret = <<>>

\* main() is not running in console mode.
MainIdle ==
    /\ main_pc = "idle"
    /\ conv_index = 0
    /\ conv_log = <<>>

\* No ConversationPanel shows the pager.
PanelIdle ==
    /\ panel_pc = "idle"
    /\ current_page = <<>>
    /\ current_key = None
    /\ page_numbers = EmptyDict
    /\ history_links = EmptyDict
    /\ prev_disabled = TRUE
    /\ next_disabled = TRUE
    /\ page_number = 0
    /\ last_step = "none"
    /\ from_number = 0
    /\ loaded = FALSE

\* ---------------------------------------------------------------------------
\* ConversationPager
\* ---------------------------------------------------------------------------
\* No streaming traversal is running.
StreamIdle ==
    /\ order = "asc"
    /\ page_limit = 0
    /\ pc = "idle"
    /\ url = None
    /\ page_count = 0
    /\ paging_next = None
    /\ collected = <<>>
    /\ detailed_page = <<>>
    /\ pos = 0
    /\ yielded = <<>>
    /\ fetched_pages = <<>>
    /\ stream_fetches = 0
    /\ ended = "no"

\* ConversationPager.__init__
PagerInit ==
    /\ StreamIdle
    /\ FnIdle
    /\ MainIdle
    /\ PanelIdle
    /\ self_order \in Orders
    /\ \E page_limit_arg \in PageLimits : self_page_limit = Max(page_limit_arg, 0)
    /\ self_cache = EmptyDict
    /\ self_fetched = 0
    /\ page_url = None
    /\ outcome = "none"
    /\ result = <<>>
    /\ fetch_calls = [c \in Cursors |-> 0]
    /\ fetch_ok = [c \in Cursors |-> 0]
    /\ returned = EmptyDict
    /\ served = EmptyDict

\* A membership test that never finds the key.
InCacheNever(k) == FALSE

\* "key in self._cache"
InCache(k) == k \in DOMAIN self_cache

\* The ceiling test with > for >=.
CeilingReachedOffByOne == self_page_limit # 0 /\ self_fetched > self_page_limit

\* "self._page_limit and self._fetched >= self._page_limit"
CeilingReached == self_page_limit # 0 /\ self_fetched >= self_page_limit

\* A ConversationPage that does not record the cursor it was asked for.
BuildPageNoIdentifier(cursor, response) ==
    LET detailed == NormalizeAll(response.data)
        keys == [i \in 1..Len(detailed) |-> key_func(detailed[i])]
    IN  [identifier |-> None,
         messages |-> ListSort(keys, detailed, self_order = "desc"),
         next_url |-> response.paging.next,
         previous_url |-> response.paging.previous]

\* The ConversationPage built from an answer: normalise, sort per page.
BuildPage(cursor, response) ==
    LET detailed == NormalizeAll(response.data)
        keys == [i \in 1..Len(detailed) |-> key_func(detailed[i])]
    IN  [identifier |-> cursor,
         messages |-> ListSort(keys, detailed, self_order = "desc"),
         next_url |-> response.paging.next,
         previous_url |-> response.paging.previous]

\* fetch_page(cursor), cache hit: return self._cache[key]
FetchPageCached(cursor) ==
    /\ InCache(cursor)
    /\ page_url' = cursor
    /\ outcome' = "cached"
    /\ result' = <<self_cache[cursor]>>
    /\ returned' = IF cursor \in DOMAIN returned THEN returned
                   ELSE DictSet(returned, cursor, self_cache[cursor])
    /\ UNCHANGED <<self_order, self_page_limit, self_cache, self_fetched,
                   fetch_calls, fetch_ok, served, streamVars, fnVars, mainVars>>

\* fetch_page(cursor), ceiling reached for an uncached cursor: return None
FetchPageCeiling(cursor) ==
    /\ ~InCache(cursor)
    /\ CeilingReached
    /\ page_url' = cursor
    /\ outcome' = "ceiling"
    /\ result' = <<>>
    /\ UNCHANGED <<self_order, self_page_limit, self_cache, self_fetched,
                   fetch_calls, fetch_ok, returned, served, streamVars, fnVars, mainVars>>

\* A failed fetch that is counted against the ceiling.
FetchPageFailureCounted(cursor) ==
    /\ ~InCache(cursor)
    /\ ~CeilingReached
    /\ TotalFetchCalls < MaxPagerFetches
    /\ fetch_calls' = [fetch_calls EXCEPT ![cursor] = @ + 1]
    /\ self_fetched' = self_fetched + 1
    /\ page_url' = cursor
    /\ outcome' = "failure"
    /\ result' = <<>>
    /\ UNCHANGED <<self_order, self_page_limit, self_cache,
                   fetch_ok, returned, served, streamVars, fnVars, mainVars>>

\* fetch_page(cursor), fetch_conversation_page answers (None, None): return None
FetchPageFailure(cursor) ==
    /\ ~InCache(cursor)
    /\ ~CeilingReached
    /\ TotalFetchCalls < MaxPagerFetches
    /\ fetch_calls' = [fetch_calls EXCEPT ![cursor] = @ + 1]
    /\ page_url' = cursor
    /\ outcome' = "failure"
    /\ result' = <<>>
    /\ UNCHANGED <<self_order, self_page_limit, self_cache, self_fetched,
                   fetch_ok, returned, served, streamVars, fnVars, mainVars>>

\* A successful fetch whose page is returned but not put into the cache.
FetchPageStoreNoCache(cursor, response) ==
    /\ ~InCache(cursor)
    /\ ~CeilingReached
    /\ TotalFetchCalls < MaxPagerFetches
    /\ fetch_calls' = [fetch_calls EXCEPT ![cursor] = @ + 1]
    /\ fetch_ok' = [fetch_ok EXCEPT ![cursor] = @ + 1]
    /\ LET page == BuildPage(cursor, response)
       IN  /\ result' = <<page>>
           /\ returned' = IF cursor \in DOMAIN returned THEN returned
                          ELSE DictSet(returned, cursor, page)
    /\ self_fetched' = self_fetched + 1
    /\ page_url' = cursor
    /\ outcome' = "stored"
    /\ UNCHANGED <<self_order, self_page_limit, self_cache, served,
                   streamVars, fnVars, mainVars>>

\* fetch_page(cursor), fetch_conversation_page answers a page: cache and return it
FetchPageStore(cursor, response) ==
    /\ ~InCache(cursor)
    /\ ~CeilingReached
    /\ TotalFetchCalls < MaxPagerFetches
    /\ fetch_calls' = [fetch_calls EXCEPT ![cursor] = @ + 1]
    /\ LET page == BuildPage(cursor, response)
       IN  /\ self_cache' = DictSet(self_cache, cursor, page)
           /\ result' = <<page>>
           /\ returned' = IF cursor \in DOMAIN returned THEN returned
                          ELSE DictSet(returned, cursor, page)
    /\ fetch_ok' = [fetch_ok EXCEPT ![cursor] = @ + 1]
    /\ self_fetched' = self_fetched + 1
    /\ served' = DictSet(served, cursor, response)
    /\ page_url' = cursor
    /\ outcome' = "stored"
    /\ UNCHANGED <<self_order, self_page_limit, streamVars, fnVars, mainVars>>

PagerNext ==
    \E cursor \in Cursors :
        \/ FetchPageCached(cursor) /\ UNCHANGED panelVars
        \/ FetchPageCeiling(cursor) /\ UNCHANGED panelVars
        \/ FetchPageFailure(cursor) /\ UNCHANGED panelVars
        \/ \E response \in PagerResponses :
              FetchPageStore(cursor, response) /\ UNCHANGED panelVars

PagerSpec == PagerInit /\ [][PagerNext]_vars

\* ---------------------------------------------------------------------------
\* Streaming traversal: iter_conversation_pages driven by
\* iter_enriched_messages, pulled by a consumer one message at a time
\* ---------------------------------------------------------------------------
\* No ConversationPager is in use.
PagerIdle ==
    /\ self_order = "asc"
    /\ self_page_limit = 0
    /\ self_cache = EmptyDict
    /\ self_fetched = 0
    /\ page_url = None
    /\ outcome = "none"
    /\ result = <<>>
    /\ fetch_calls = [c \in Cursors |-> 0]
    /\ fetch_ok = [c \in Cursors |-> 0]
    /\ returned = EmptyDict
    /\ served = EmptyDict

\* The first pull of iter_enriched_messages(order, page_limit): url = None,
\* page_count = 0, nothing collected.
StreamInit ==
    /\ PagerIdle
    /\ FnIdle
    /\ MainIdle
    /\ PanelIdle
    /\ order \in Orders
    /\ page_limit \in PageLimits
    /\ pc = "pages"
    /\ url = None
    /\ page_count = 0
    /\ paging_next = None
    /\ collected = <<>>
    /\ detailed_page = <<>>
    /\ pos = 0
    /\ yielded = <<>>
    /\ fetched_pages = <<>>
    /\ stream_fetches = 0
    /\ ended = "no"

\* The > for >= slip in the ceiling test.
PageCeilingReachedOffByOne == page_limit # 0 /\ page_count > page_limit

\* "if page_limit and page_count >= page_limit"
PageCeilingReached == page_limit # 0 /\ page_count >= page_limit

\* A test that takes only None for a missing next cursor.
NoUrlOnlyNone(u) == u = None

\* "if not url"
NoUrl(u) == u = None \/ u = ""

\* A mode test that sends every order down the collect-everything path.
AscendingModeAlways == TRUE

\* A mode test that sends every order down the page-by-page path.
AscendingModeNever == FALSE

\* "if order == 'asc'"
AscendingMode == order = "asc"

\* collected left in fetch order.
SortCollectedSkipped(list) == list

\* "collected.sort(key=key)"
SortCollected(list) ==
    ListSort([i \in 1..Len(list) |-> key(list[i])], list, FALSE)

\* The page sorted ascending.
SortDetailedPageAscending(list) ==
    ListSort([i \in 1..Len(list) |-> key(list[i])], list, FALSE)

\* "detailed_page.sort(key=key, reverse=True)"
SortDetailedPage(list) ==
    ListSort([i \in 1..Len(list) |-> key(list[i])], list, TRUE)

\* iter_conversation_pages returns: the for loop of iter_enriched_messages
\* ends. Order "asc": "if not collected: return", else sort and go on to
\* yield; otherwise the traversal is exhausted.
PagesReturn(reason) ==
    /\ ended' = reason
    /\ IF AscendingMode /\ collected # <<>>
       THEN /\ collected' = SortCollected(collected)
            /\ pc' = "yield"
       ELSE /\ collected' = collected
            /\ pc' = "done"
    /\ pos' = 0
    /\ UNCHANGED <<order, page_limit, url, page_count, paging_next,
                   detailed_page, yielded, fetched_pages>>

\* Head of the while loop, the ceiling is reached: return
PagesCeiling ==
    /\ pc = "pages"
    /\ PageCeilingReached
    /\ PagesReturn("ceiling")
    /\ UNCHANGED <<stream_fetches,
                   pagerVars, fnVars, mainVars, panelVars>>

\* A traversal that notes the failure and asks for the same cursor again.
PagesFetchFailureRetry ==
    /\ pc = "pages"
    /\ ~PageCeilingReached
    /\ stream_fetches < MaxFetches
    /\ stream_fetches' = stream_fetches + 1
    /\ ended' = "failure"
    /\ UNCHANGED <<order, page_limit, pc, url, page_count, paging_next, collected,
                   detailed_page, pos, yielded, fetched_pages,
                   pagerVars, fnVars, mainVars, panelVars>>

\* fetch_conversation_page answers (None, None): return
PagesFetchFailure ==
    /\ pc = "pages"
    /\ ~PageCeilingReached
    /\ stream_fetches < MaxFetches
    /\ stream_fetches' = stream_fetches + 1
    /\ PagesReturn("failure")
    /\ UNCHANGED <<pagerVars, fnVars, mainVars, panelVars>>

\* fetch_conversation_page answers a page, which is yielded to
\* iter_enriched_messages: "asc" appends its normalized messages to
\* collected and asks for the next page; otherwise the page is normalized
\* and sorted, an empty detailed_page asks for the next page ("continue"),
\* a non-empty one is handed out message by message.
PagesFetchPage(response) ==
    /\ pc = "pages"
    /\ ~PageCeilingReached
    /\ stream_fetches < MaxFetches
    /\ stream_fetches' = stream_fetches + 1
    /\ fetched_pages' = Append(fetched_pages, response.data)
    /\ paging_next' = response.paging.next
    /\ IF AscendingMode
       THEN /\ collected' = collected \o NormalizeAll(response.data)
            /\ detailed_page' = detailed_page
            /\ pc' = "resume"
       ELSE /\ collected' = collected
            /\ detailed_page' = SortDetailedPage(NormalizeAll(response.data))
            /\ pc' = IF NormalizeAll(response.data) = <<>> THEN "resume" ELSE "yield"
    /\ pos' = 0
    /\ UNCHANGED <<order, page_limit, url, page_count, yielded, ended,
                   pagerVars, fnVars, mainVars, panelVars>>

\* iter_conversation_pages resumes behind its yield: page_count += 1,
\* url = paging.get("next"), "if not url: return"
PagesResume ==
    /\ pc = "resume"
    /\ page_count' = page_count + 1
    /\ url' = paging_next
    /\ IF NoUrl(paging_next)
       THEN /\ ended' = "no_next"
            /\ IF AscendingMode /\ collected # <<>>
               THEN /\ collected' = SortCollected(collected)
                    /\ pc' = "yield"
               ELSE /\ collected' = collected
                    /\ pc' = "done"
       ELSE /\ ended' = ended
            /\ collected' = collected
            /\ pc' = "pages"
    /\ pos' = 0
    /\ UNCHANGED <<order, page_limit, paging_next, detailed_page, yielded,
                   fetched_pages, stream_fetches,
                   pagerVars, fnVars, mainVars, panelVars>>

\* "yield message": the consumer pulls the next message of collected
\* ("asc") or of detailed_page; behind the last one "asc" is exhausted and
\* the page-by-page loop asks for the next page.
YieldMessage ==
    /\ pc = "yield"
    /\ LET list == IF AscendingMode THEN collected ELSE detailed_page
       IN  /\ pos < Len(list)
           /\ yielded' = Append(yielded, list[pos + 1])
           /\ pos' = pos + 1
           /\ pc' = IF pos + 1 < Len(list) THEN "yield"
                     ELSE IF AscendingMode THEN "done" ELSE "resume"
    /\ UNCHANGED <<order, page_limit, url, page_count, paging_next, collected,
                   detailed_page, fetched_pages, stream_fetches, ended,
                   pagerVars, fnVars, mainVars, panelVars>>

StreamNext ==
    \/ PagesCeiling
    \/ PagesFetchFailure
    \/ \E response \in ServerResponses : PagesFetchPage(response)
    \/ PagesResume
    \/ YieldMessage

StreamSpec == StreamInit /\ [][StreamNext]_vars

\* ---------------------------------------------------------------------------
\* Both access modes of the engine: a behaviour is either the life of one
\* ConversationPager or one streaming traversal.
\* ---------------------------------------------------------------------------
EngineInit == PagerInit \/ StreamInit

EngineNext ==
    \/ pc = "idle" /\ PagerNext
    \/ StreamNext

EngineSpec == EngineInit /\ [][EngineNext]_vars

\* ---------------------------------------------------------------------------
\* ConversationPanel: the table UI's navigator over one ConversationPager
\* ---------------------------------------------------------------------------
\* The pages the server answers the panel's pager with.
PanelResponses == [data : {<<>>, <<MsgA, MsgB>>}, paging : Pagings]

\* The cursors the panel may ask its pager for: a next_url may be "".
PanelCursors == Cursors \cup {""}

\* _key_for_identifier: identifier or "__root__"
key_for_identifier(identifier) ==
    IF identifier = None \/ identifier = "" THEN "__root__" ELSE identifier

\* A conversion that gives the first page's key back as the empty cursor.
identifier_from_keyEmptyRoot(k) ==
    IF k = None \/ k = "" \/ k = "__root__" THEN "" ELSE k

\* _identifier_from_key
identifier_from_key(k) ==
    IF k = None \/ k = "" \/ k = "__root__" THEN None ELSE k

\* dict.get(k) and dict.get(k, default)
DictGet(d, k, default) == IF k \in DOMAIN d THEN d[k] ELSE default

\* ConversationPanel.__init__ takes the pager it is to show as an argument
\* (ConversationApp.__init__ hands it one built with page_limit=0 and the
\* given order): a fresh pager of any order and ceiling, and a panel that is
\* constructed and not yet mounted.
PanelInit ==
    /\ StreamIdle
    /\ FnIdle
    /\ MainIdle
    /\ self_order \in Orders
    /\ \E page_limit_arg \in PageLimits : self_page_limit = Max(page_limit_arg, 0)
    /\ self_cache = EmptyDict
    /\ self_fetched = 0
    /\ page_url = None
    /\ outcome = "none"
    /\ result = <<>>
    /\ fetch_calls = [c \in PanelCursors |-> 0]
    /\ fetch_ok = [c \in PanelCursors |-> 0]
    /\ returned = EmptyDict
    /\ served = EmptyDict
    /\ panel_pc = "constructed"
    /\ current_page = <<>>
    /\ current_key = None
    /\ page_numbers = EmptyDict
    /\ history_links = EmptyDict
    /\ prev_disabled = TRUE
    /\ next_disabled = TRUE
    /\ page_number = 0
    /\ last_step = "none"
    /\ from_number = 0
    /\ loaded = FALSE

\* The history link written for the page loaded (lines 624-627).
LinkHistory(k, direction, previous_key) ==
    IF previous_key = None /\ k \notin DOMAIN history_links
    THEN DictSet(history_links, k, None)
    ELSE IF direction = "next" /\ previous_key # None
         THEN DictSet(history_links, k, previous_key)
         ELSE history_links

\* A numbering that numbers the page anew on every visit.
AssignPageNumberAlways(k, direction, previous_key) ==
    IF direction = "next" /\ previous_key # None
    THEN DictSet(page_numbers, k, DictGet(page_numbers, previous_key, 1) + 1)
    ELSE IF direction = "previous" /\ previous_key # None
         THEN DictSet(page_numbers, k,
                      Max(DictGet(page_numbers, previous_key, 1) - 1, 1))
         ELSE DictSet(page_numbers, k, 1)

\* "if key not in self._page_numbers: ..." (lines 629-637)
AssignPageNumber(k, direction, previous_key) ==
    IF k \in DOMAIN page_numbers THEN page_numbers
    ELSE IF direction = "next" /\ previous_key # None
         THEN DictSet(page_numbers, k, DictGet(page_numbers, previous_key, 1) + 1)
    ELSE IF direction = "previous" /\ previous_key # None
         THEN DictSet(page_numbers, k,
                      Max(DictGet(page_numbers, previous_key, 1) - 1, 1))
    ELSE DictSet(page_numbers, k, 1)

\* A _load_page that empties the display when the pager returns None.
LoadPageClearsOnNone(cursor, direction) ==
    /\ \/ FetchPageCached(cursor)
       \/ FetchPageCeiling(cursor)
       \/ FetchPageFailure(cursor)
       \/ \E response \in PanelResponses : FetchPageStore(cursor, response)
    /\ last_step' = IF direction = None THEN "mount" ELSE direction
    /\ from_number' = page_number
    /\ loaded' = (result' # <<>>)
    /\ IF result' = <<>>
       THEN /\ next_disabled' = IF direction = "next" THEN TRUE ELSE next_disabled
            /\ prev_disabled' = IF direction = "previous" THEN TRUE ELSE prev_disabled
            /\ current_page' = <<>>
            /\ current_key' = None
            /\ UNCHANGED <<page_numbers, history_links, page_number>>
       ELSE LET page == result'[1]
                k == key_for_identifier(page.identifier)
                links == LinkHistory(k, direction, current_key)
                numbers == AssignPageNumber(k, direction, current_key)
            IN  /\ history_links' = links
                /\ page_numbers' = numbers
                /\ current_page' = <<page>>
                /\ current_key' = k
                /\ prev_disabled' = (DictGet(links, k, None) = None)
                /\ next_disabled' = (page.next_url = None)
                /\ page_number' = numbers[k]

\* _load_page(cursor, direction=direction): self._pager.fetch_page(cursor),
\* then the panel's bookkeeping for the page it returned, or for None.
LoadPage(cursor, direction) ==
    /\ \/ FetchPageCached(cursor)
       \/ FetchPageCeiling(cursor)
       \/ FetchPageFailure(cursor)
       \/ \E response \in PanelResponses : FetchPageStore(cursor, response)
    /\ last_step' = IF direction = None THEN "mount" ELSE direction
    /\ from_number' = page_number
    /\ loaded' = (result' # <<>>)
    /\ IF result' = <<>>
       THEN /\ next_disabled' = IF direction = "next" THEN TRUE ELSE next_disabled
            /\ prev_disabled' = IF direction = "previous" THEN TRUE ELSE prev_disabled
            /\ UNCHANGED <<current_page, current_key, page_numbers, history_links,
                           page_number>>
       ELSE LET page == result'[1]
                k == key_for_identifier(page.identifier)
                links == LinkHistory(k, direction, current_key)
                numbers == AssignPageNumber(k, direction, current_key)
            IN  /\ history_links' = links
                /\ page_numbers' = numbers
                /\ current_page' = <<page>>
                /\ current_key' = k
                /\ prev_disabled' = (DictGet(links, k, None) = None)
                /\ next_disabled' = (page.next_url = None)
                /\ page_number' = numbers[k]

\* on_mount: both buttons disabled, then _load_page(None)
OnMount ==
    /\ panel_pc = "constructed"
    /\ panel_pc' = "mounted"
    /\ LoadPage(None, None)

\* on_button_pressed, the enabled Next button:
\* _load_page(self._current_page.next_url, direction="next")
PressNext ==
    /\ panel_pc = "mounted"
    /\ ~next_disabled
    /\ current_page # <<>>
    /\ panel_pc' = panel_pc
    /\ LoadPage(current_page[1].next_url, "next")

\* on_button_pressed, the enabled Prev button: without a history link for
\* the current key the button is disabled, else
\* _load_page(_identifier_from_key(prev_key), direction="previous")
PressPrev ==
    /\ panel_pc = "mounted"
    /\ ~prev_disabled
    /\ current_page # <<>>
    /\ panel_pc' = panel_pc
    /\ IF current_key = None \/ DictGet(history_links, current_key, None) = None
       THEN /\ prev_disabled' = TRUE
            /\ last_step' = "previous"
            /\ from_number' = page_number
            /\ loaded' = FALSE
            /\ UNCHANGED <<current_page, current_key, page_numbers, history_links,
                           next_disabled, page_number,
                           pagerVars, streamVars, fnVars, mainVars>>
       ELSE LoadPage(identifier_from_key(history_links[current_key]), "previous")

PanelNext ==
    \/ OnMount
    \/ PressNext
    \/ PressPrev

PanelSpec == PanelInit /\ [][PanelNext]_vars

\* ---------------------------------------------------------------------------
\* main() in console mode (--no-textual): one streaming traversal after the
\* other, one per conversation id
\* ---------------------------------------------------------------------------
\* The ids iter_conversation_ids yields.
ConversationIds == <<"c1", "c2", "c3">>

\* The pages the server answers main's traversals with.
MainResponses == [data : {<<>>, <<MsgD, MsgA>>}, paging : Pagings]

\* main has parsed --order and --page-limit and stands before the for loop
\* over the conversation ids.
MainInit ==
    /\ PagerIdle
    /\ FnIdle
    /\ PanelIdle
    /\ main_pc = "loop"
    /\ conv_index = 0
    /\ conv_log = <<>>
    /\ order \in Orders
    /\ page_limit \in PageLimits
    /\ pc = "idle"
    /\ url = None
    /\ page_count = 0
    /\ paging_next = None
    /\ collected = <<>>
    /\ detailed_page = <<>>
    /\ pos = 0
    /\ yielded = <<>>
    /\ fetched_pages = <<>>
    /\ stream_fetches = 0
    /\ ended = "no"

\* What the traversal of the current conversation leaves behind.
ConversationLog ==
    IF pc = "done"
    THEN Append(conv_log, [id |-> ConversationIds[conv_index], ended |-> ended,
                           fetches |-> stream_fetches])
    ELSE conv_log

\* A for loop that gives up when the traversal it ran ended on a failure.
MainNextConversationStopOnFailure ==
    /\ main_pc = "loop"
    /\ pc \in {"idle", "done"}
    /\ conv_index < Len(ConversationIds)
    /\ conv_log' = ConversationLog
    /\ IF ended = "failure"
       THEN /\ main_pc' = "return"
            /\ UNCHANGED <<conv_index, pc, url, page_count, paging_next, collected,
                           detailed_page, pos, yielded, fetched_pages,
                           stream_fetches, ended>>
       ELSE /\ main_pc' = main_pc
            /\ conv_index' = conv_index + 1
            /\ pc' = "pages"
            /\ url' = None
            /\ page_count' = 0
            /\ paging_next' = None
            /\ collected' = <<>>
            /\ detailed_page' = <<>>
            /\ pos' = 0
            /\ yielded' = <<>>
            /\ fetched_pages' = <<>>
            /\ stream_fetches' = 0
            /\ ended' = "no"
    /\ UNCHANGED <<order, page_limit, pagerVars, fnVars, panelVars>>

\* "for conversation_id in iter_conversation_ids(args)" takes the next id,
\* the traversal before it (if any) being exhausted, and calls
\* iter_enriched_messages(conversation_id, token, args.order, args.page_limit).
MainNextConversation ==
    /\ main_pc = "loop"
    /\ pc \in {"idle", "done"}
    /\ conv_index < Len(ConversationIds)
    /\ conv_log' = ConversationLog
    /\ conv_index' = conv_index + 1
    /\ pc' = "pages"
    /\ url' = None
    /\ page_count' = 0
    /\ paging_next' = None
    /\ collected' = <<>>
    /\ detailed_page' = <<>>
    /\ pos' = 0
    /\ yielded' = <<>>
    /\ fetched_pages' = <<>>
    /\ stream_fetches' = 0
    /\ ended' = "no"
    /\ UNCHANGED <<main_pc, order, page_limit, pagerVars, fnVars, panelVars>>

\* The for loop is through with the last id: return 0
MainReturn ==
    /\ main_pc = "loop"
    /\ pc = "done"
    /\ conv_index = Len(ConversationIds)
    /\ conv_log' = ConversationLog
    /\ main_pc' = "return"
    /\ UNCHANGED <<conv_index, streamVars, pagerVars, fnVars, panelVars>>

\* The inner for loop pulls the traversal of the current conversation.
MainTraverse ==
    /\ main_pc = "loop"
    /\ \/ PagesCeiling
       \/ PagesFetchFailure
       \/ \E response \in MainResponses : PagesFetchPage(response)
       \/ PagesResume
       \/ YieldMessage

MainNext ==
    \/ MainNextConversation
    \/ MainTraverse
    \/ MainReturn

MainSpec == MainInit /\ [][MainNext]_vars

\* ---------------------------------------------------------------------------
\* The module's functions applied on their own, each to one argument
\* ---------------------------------------------------------------------------
\* Arguments of normalize_message: any JSON value of a "data" list.
RawRecords ==
    [isdict : BOOLEAN,
     id : {None, "", "a", "b"},
     created_time : {None, "yesterday", "1970-01-01T00:00:01+0000"}]

\* Normalized messages to sort: every identifier with no timestamp, an
\* unparsable one, one before the epoch, the epoch in two spellings, and
\* one after it.
SortMessages ==
    [isdict : {TRUE},
     id : {"a", "b"},
     created_time : {None, "yesterday"} \cup DOMAIN ParsedTimes]

\* The lists handed to list.sort: all pairs, and triples of a few messages.
SortLists ==
    {<<x, y>> : x \in SortMessages, y \in SortMessages}
        \cup {<<x, y, z>> : x \in {MsgA, MsgB, MsgD, MsgF, MsgP},
                            y \in {MsgA, MsgB, MsgD, MsgF, MsgP},
                            z \in {MsgA, MsgB, MsgD, MsgF, MsgP}}

\* A JSON value that is no string and no object (a number).
Number == "<7>"

\* str.strip() on the strings of the model.
strip ==
    [c \in {"", "  ", " direct ", " t ", " tt ", " tb ", " tm ",
            " it ", " pt ", " pb ", " pm "} |->
        CASE c = "" -> ""
          [] c = "  " -> ""
          [] c = " direct " -> "direct"
          [] c = " t " -> "t"
          [] c = " tt " -> "tt"
          [] c = " tb " -> "tb"
          [] c = " tm " -> "tm"
          [] c = " it " -> "it"
          [] c = " pt " -> "pt"
          [] c = " pb " -> "pb"
          [] c = " pm " -> "pm"]

\* A mapping probed for text, body, message (absent keys are None); kind
\* tells a mapping from an absent member, a string ("value") and any other
\* JSON value.
Probed(k, v, t, b, m) == [kind |-> k, value |-> v, text |-> t, body |-> b, message |-> m]

\* The "text" member of a record.
TextFields ==
    {Probed("absent", None, None, None, None),
     Probed("other", None, None, None, None),
     Probed("str", "  ", None, None, None),
     Probed("str", " t ", None, None, None)}
        \cup {Probed("dict", None, t, b, m) :
                  t \in {None, "  ", " tt "}, b \in {None, " tb "}, m \in {None, " tm "}}

\* The entries of attachments["data"].
Item(d, t, p) == [isdict |-> d, text |-> t, payload |-> p]
NoPayload == Probed("absent", None, None, None, None)
AttachmentItems ==
    {Item(FALSE, None, NoPayload),
     Item(TRUE, None, NoPayload),
     Item(TRUE, " it ", NoPayload),
     Item(TRUE, "  ", Probed("dict", None, None, " pb ", None)),
     Item(TRUE, None, Probed("dict", None, " pt ", " pb ", " pm ")),
     Item(TRUE, None, Probed("dict", None, None, None, " pm ")),
     Item(TRUE, Number, Probed("dict", None, "  ", "  ", None))}

\* The "attachments" member of a record: absent, no mapping, or a mapping
\* whose "data" (absent: the empty list) holds up to two entries.
Attachments ==
    {[kind |-> "absent", data |-> <<>>], [kind |-> "other", data |-> <<>>],
     [kind |-> "dict", data |-> <<>>]}
        \cup {[kind |-> "dict", data |-> <<x>>] : x \in AttachmentItems}
        \cup {[kind |-> "dict", data |-> <<x, y>>] :
                  x \in AttachmentItems, y \in AttachmentItems}

\* Arguments of extract_message_text.
TextRecords ==
    [message : {None, "  ", Number, " direct "},
     text : TextFields,
     attachments : Attachments]

\* _from_candidate: the stripped string, None for a non-string or a blank.
from_candidate(candidate) ==
    IF candidate = None \/ candidate = Number THEN None
    ELSE IF strip[candidate] = "" THEN None
    ELSE strip[candidate]

\* The keys probed with body ahead of text.
ProbeKeysBodyFirst == <<"body", "text", "message">>

\* for key in ("text", "body", "message")
ProbeKeys == <<"text", "body", "message">>

\* The loop over the keys of a mapping: the first candidate that gives text.
RECURSIVE FromKeys(_, _)
FromKeys(mapping, keys) ==
    IF keys = <<>> THEN None
    ELSE IF from_candidate(mapping[Head(keys)]) # None
         THEN from_candidate(mapping[Head(keys)])
         ELSE FromKeys(mapping, Tail(keys))

\* The loop over attachments.get("data", []).
RECURSIVE FromItems(_)
FromItems(items) ==
    IF items = <<>> THEN None
    ELSE LET item == Head(items)
         IN  IF ~item.isdict THEN FromItems(Tail(items))
             ELSE IF from_candidate(item.text) # None THEN from_candidate(item.text)
             ELSE IF item.payload.kind = "dict" /\ FromKeys(item.payload, ProbeKeys) # None
                  THEN FromKeys(item.payload, ProbeKeys)
             ELSE FromItems(Tail(items))

\* extract_message_text(data)
extract_message_text(data) ==
    LET direct == from_candidate(data.message)
        text_field == data.text
        text == IF text_field.kind = "str" THEN from_candidate(text_field.value)
                ELSE IF text_field.kind = "dict" THEN FromKeys(text_field, ProbeKeys)
                ELSE None
        attachments == data.attachments
    IN  IF direct # None THEN direct
        ELSE IF text # None THEN text
        ELSE IF attachments.kind = "dict" THEN FromItems(attachments.data)
        ELSE None

\* What requests.get meets: a network error or a response with a status and
\* a body. A body is no JSON, or a JSON value of some kind; of an object,
\* "messages" is absent or a value of some kind, and the container (the
\* "messages" object, else the payload itself) has "data" (absent, a list or
\* something else) and "paging" (absent, null or an object).
StatusCodes == {200, 404, 500}

JsonKinds == {"object", "array", "string", "null"}

Bodies ==
    [json : {FALSE}, kind : {"null"}, messages : {"absent"}, data_kind : {"absent"},
     data : {<<>>}, paging_kind : {"absent"}, paging : {[next |-> None, previous |-> None]}]
    \cup
    [json : {TRUE}, kind : JsonKinds \ {"object"}, messages : {"absent"},
     data_kind : {"absent"}, data : {<<>>}, paging_kind : {"absent"},
     paging : {[next |-> None, previous |-> None]}]
    \cup
    [json : {TRUE}, kind : {"object"}, messages : {"absent"} \cup JsonKinds,
     data_kind : {"absent", "list", "other"}, data : {<<MsgD, MsgA>>},
     paging_kind : {"absent", "null", "object"},
     paging : {[next |-> "u1", previous |-> None]}]

HttpExchanges == [network : {"error", "ok"}, status : StatusCodes, body : Bodies]

\* The outcomes of fetch_conversation_page: the FAILURE value (None, None),
\* a (data, paging) pair, or an exception that leaves the function.
Failure == [kind |-> "failure", data |-> <<>>, paging |-> [next |-> None, previous |-> None]]
Raises == [kind |-> "raise", data |-> <<>>, paging |-> [next |-> None, previous |-> None]]
PageOf(data, paging) == [kind |-> "page", data |-> data, paging |-> paging]

\* fetch_conversation_page against one exchange.
fetch_conversation_page(http) ==
    IF http.network = "error" THEN Failure
    ELSE IF http.status >= 400 THEN Failure
    ELSE IF ~http.body.json THEN Failure
    ELSE IF http.body.kind # "object" THEN Raises
    ELSE IF http.body.messages \notin {"absent", "object"} THEN Raises
    ELSE PageOf(IF http.body.data_kind = "list" THEN http.body.data ELSE <<>>,
                IF http.body.paging_kind = "object" THEN http.body.paging
                ELSE [next |-> None, previous |-> None])

\* Nothing else of the program runs.
OnlyFunctions == PagerIdle /\ StreamIdle /\ MainIdle /\ PanelIdle

PureInit ==
    /\ OnlyFunctions
    /\ called = FALSE
    /\ ret = <<>>
    /\ \/ fn = "normalize_message" /\ arg \in RawRecords
       \/ fn = "sort" /\ arg \in [messages : SortLists, order : Orders]
       \/ fn = "extract_message_text" /\ arg \in TextRecords
       \/ fn = "fetch_conversation_page" /\ arg \in HttpExchanges

\* normalize_message(arg): the argument is only read.
CallNormalizeMessage ==
    /\ fn = "normalize_message"
    /\ ~called
    /\ called' = TRUE
    /\ ret' = normalize_message(arg)
    /\ UNCHANGED <<fn, arg, pagerVars, streamVars, mainVars, panelVars>>

\* The sort of iter_enriched_messages in the order asked for:
\* collected.sort(key=key), or detailed_page.sort(key=key, reverse=True).
CallSort ==
    /\ fn = "sort"
    /\ ~called
    /\ called' = TRUE
    /\ ret' = IF arg.order = "asc" THEN SortCollected(arg.messages)
              ELSE SortDetailedPage(arg.messages)
    /\ UNCHANGED <<fn, arg, pagerVars, streamVars, mainVars, panelVars>>

\* extract_message_text(arg)
CallExtractMessageText ==
    /\ fn = "extract_message_text"
    /\ ~called
    /\ called' = TRUE
    /\ ret' = extract_message_text(arg)
    /\ UNCHANGED <<fn, arg, pagerVars, streamVars, mainVars, panelVars>>

\* fetch_conversation_page(...) meeting the exchange arg
CallFetchConversationPage ==
    /\ fn = "fetch_conversation_page"
    /\ ~called
    /\ called' = TRUE
    /\ ret' = fetch_conversation_page(arg)
    /\ UNCHANGED <<fn, arg, pagerVars, streamVars, mainVars, panelVars>>

PureNext ==
    \/ CallNormalizeMessage
    \/ CallSort
    \/ CallExtractMessageText
    \/ CallFetchConversationPage

PureSpec == PureInit /\ [][PureNext]_vars

\* ---------------------------------------------------------------------------
\* Vocabulary of the properties
\* ---------------------------------------------------------------------------
Range(seq) == {seq[i] : i \in 1..Len(seq)}

Count(seq, x) == Cardinality({i \in 1..Len(seq) : seq[i] = x})

\* a and b hold the same elements, each as often in a as in b.
IsPermutation(a, b) ==
    /\ Len(a) = Len(b)
    /\ \A x \in Range(a) \cup Range(b) : Count(a, x) = Count(b, x)

\* The Ordering Key of a normalized message: (timestamp-or-epoch, identifier).
OrderingKey(msg) ==
    LET parsed == parse_created_time(msg.created_time)
    IN  << IF parsed = <<>> THEN EPOCH ELSE parsed[1], msg.id >>

\* seq is sorted non-decreasingly (ascending) by the Ordering Key.
SortedAscending(seq) ==
    \A i, j \in 1..Len(seq) :
        i < j => ~KeyLess(OrderingKey(seq[j]), OrderingKey(seq[i]))

\* seq is sorted non-increasingly (descending) by the Ordering Key.
SortedDescending(seq) ==
    \A i, j \in 1..Len(seq) :
        i < j => ~KeyLess(OrderingKey(seq[i]), OrderingKey(seq[j]))

\* The records of a page that carry a non-empty identifier, in page order.
ValidRecords(data) ==
    LET keep == {i \in 1..Len(data) :
                    data[i].isdict /\ data[i].id # None /\ data[i].id # ""}
        RECURSIVE Pick(_)
        Pick(i) == IF i > Len(data) THEN <<>>
                   ELSE (IF i \in keep THEN <<data[i]>> ELSE <<>>) \o Pick(i + 1)
    IN  Pick(1)

\* What descending streaming mode yields for one page (iter_enriched_messages,
\* the loop body for order # "asc").
DescPageYield(data) ==
    LET detailed_page_ == NormalizeAll(data)
        keys == [i \in 1..Len(detailed_page_) |-> key(detailed_page_[i])]
    IN  ListSort(keys, detailed_page_, TRUE)

C2_CeilingEnforced ==
    [][(self_page_limit > 0 /\ Cardinality(DOMAIN self_cache) >= self_page_limit)
         => /\ fetch_calls' = fetch_calls
            /\ IF page_url' \in DOMAIN self_cache
               THEN result' = <<self_cache[page_url']>>
               ELSE result' = <<>>]_vars

\* C2 witness: a ceiling of 2 with two cursors cached and a call for the
\* third cursor turned down.
C2_Witness ==
    /\ self_page_limit = 2
    /\ Cardinality(DOMAIN self_cache) = 2
    /\ page_url \notin DOMAIN self_cache
    /\ outcome = "ceiling"
    /\ result = <<>>

\* C3: once fetch_page(c) has returned a Page, every later fetch_page(c)
\* returns a Page with the same identifier, messages, next and previous
\* cursor, and performs no underlying fetch.
C3_CacheIdempotent ==
    /\ [](page_url \in DOMAIN returned
            => result = <<returned[page_url]>>)
    /\ [][page_url' \in DOMAIN returned => fetch_calls' = fetch_calls]_vars

\* C3 witness: a cache hit for one cursor after a page for another cursor
\* was fetched in between.
C3_Witness ==
    /\ outcome = "cached"
    /\ result = <<returned[page_url]>>
    /\ \E c \in DOMAIN self_cache : c # page_url /\ fetch_calls[c] > 0
    /\ self_fetched >= 2

\* C8: a fetch that answers FAILURE makes fetch_page return None and leaves
\* the cache and the fetched-page count as they were; no entry is cached for
\* the cursor.
C8_FailureLeavesPagerUnchanged ==
    [][(fetch_calls' # fetch_calls /\ fetch_ok' = fetch_ok)
         => /\ result' = <<>>
            /\ self_cache' = self_cache
            /\ self_fetched' = self_fetched
            /\ page_url' \notin DOMAIN self_cache']_vars

\* C8 witness: a failed fetch under a ceiling, with a page already cached.
C8_Witness ==
    /\ outcome = "failure"
    /\ result = <<>>
    /\ self_page_limit = 2
    /\ self_fetched = 1
    /\ fetch_calls[page_url] > fetch_ok[page_url]

\* C10: every Page fetch_page returns is a cached Page; a cached Page holds
\* exactly the valid records of the one answer it was built from, sorted by
\* the Ordering Key ascending for "asc" and descending for "desc"; for
\* "desc" it equals what descending streaming yields for that page.
C10_PageSortedPerPage ==
    /\ result # <<>> => /\ page_url \in DOMAIN self_cache
                        /\ result = <<self_cache[page_url]>>
    /\ \A c \in DOMAIN self_cache :
          LET page == self_cache[c]
          IN  /\ IsPermutation(page.messages, ValidRecords(served[c].data))
              /\ self_order = "asc" => SortedAscending(page.messages)
              /\ self_order = "desc" =>
                    /\ SortedDescending(page.messages)
                    /\ page.messages = DescPageYield(served[c].data)

\* C10 witness: a returned Page built from an unsorted answer with a
\* malformed record.
C10_Witness ==
    /\ result # <<>>
    /\ served[page_url].data = <<MsgC, BadEmptyId, MsgD, MsgB>>
    /\ result[1].messages = IF self_order = "desc" THEN <<MsgD, MsgC, MsgB>>
                             ELSE <<MsgB, MsgC, MsgD>>

\* ---------------------------------------------------------------------------
\* Streaming traversal: properties
\* ---------------------------------------------------------------------------
RECURSIVE Flatten(_)
Flatten(seqs) == IF seqs = <<>> THEN <<>> ELSE Head(seqs) \o Flatten(Tail(seqs))

Min(a, b) == IF a <= b THEN a ELSE b

\* Every element occurs in a at most as often as in b.
IsSubBag(a, b) == \A x \in Range(a) : Count(a, x) <= Count(b, x)

\* The number of messages the first n fetched pages contribute.
RECURSIVE ValidBefore(_)
ValidBefore(n) ==
    IF n = 0 THEN 0
    ELSE ValidBefore(n - 1) + Len(ValidRecords(fetched_pages[n]))

\* The part of the yielded sequence that falls to the i-th fetched page.
Segment(i) ==
    SubSeq(yielded, ValidBefore(i - 1) + 1, Min(ValidBefore(i), Len(yielded)))

\* The most recent page the server answered carried no records.
LastPageEmpty ==
    fetched_pages # <<>> /\ fetched_pages[Len(fetched_pages)] = <<>>

\* C4: in ascending mode the yielded sequence is sorted non-decreasingly by
\* the Ordering Key across the whole traversal, never holds more than the
\* fetched pages' valid records, and is a permutation of all of them once the
\* traversal is exhausted.
C4_AscendingGlobalSort ==
    order = "asc" =>
        /\ SortedAscending(yielded)
        /\ IsSubBag(yielded, ValidRecords(Flatten(fetched_pages)))
        /\ pc = "done" =>
              IsPermutation(yielded, ValidRecords(Flatten(fetched_pages)))

\* C4 witness: pages [T3,T1] and [T4,T2] yielded as [T1,T2,T3,T4].
C4_Witness ==
    /\ order = "asc"
    /\ pc = "done"
    /\ fetched_pages = << <<MsgD, MsgA>>, <<MsgE, MsgC>> >>
    /\ yielded = <<MsgA, MsgC, MsgD, MsgE>>

\* C5: in descending mode the yielded sequence is, page after page in fetch
\* order, the valid records of that page sorted descending by the Ordering
\* Key: all of every page once the traversal is exhausted, a prefix of that
\* concatenation before.
C5_DescendingPageLocal ==
    order = "desc" =>
        /\ Len(yielded) <= ValidBefore(Len(fetched_pages))
        /\ pc = "done" => Len(yielded) = ValidBefore(Len(fetched_pages))
        /\ \A i \in 1..Len(fetched_pages) :
              /\ SortedDescending(Segment(i))
              /\ IsSubBag(Segment(i), ValidRecords(fetched_pages[i]))
              /\ Len(yielded) >= ValidBefore(i) =>
                    IsPermutation(Segment(i), ValidRecords(fetched_pages[i]))

\* C5 witness: pages [T3,T1] and [T4,T2] yielded as [T3,T1,T4,T2].
C5_Witness ==
    /\ order = "desc"
    /\ pc = "done"
    /\ fetched_pages = << <<MsgD, MsgA>>, <<MsgE, MsgC>> >>
    /\ yielded = <<MsgD, MsgA, MsgE, MsgC>>

\* C6 (as claimed): after a fetch that answered an empty record list the
\* traversal issues no further fetch, whatever cursors that page carries.
C6_StopsAfterEmptyPage ==
    [][LastPageEmpty => stream_fetches' = stream_fetches]_vars

\* C6 (amended): an empty record list does not end the traversal by itself.
\* After a fetch that answered an empty record list a further fetch is issued
\* only for that page's non-empty next cursor and only below the ceiling; the
\* traversal ends after such a page when the page carries no next cursor
\* (absent or empty), when the ceiling is reached, or when the fetch of the
\* next cursor answers FAILURE.
C6_EmptyPageEndsOnlyWithoutNext ==
    /\ [][(LastPageEmpty /\ stream_fetches' > stream_fetches)
            => /\ paging_next \notin {None, ""}
               /\ url = paging_next
               /\ ~(page_limit # 0 /\ Len(fetched_pages) >= page_limit)]_vars
    /\ []((LastPageEmpty /\ ended = "no_next") => paging_next \in {None, ""})
    /\ []((LastPageEmpty /\ ended = "ceiling")
            => (page_limit # 0 /\ Len(fetched_pages) >= page_limit))

\* C6 witness: an empty page with a next cursor was followed by the fetch of
\* another page.
C6_Witness ==
    /\ Len(fetched_pages) >= 2
    /\ fetched_pages[1] = <<>>
    /\ fetched_pages[2] # <<>>

\* The longest data list the server answers with.
LongestPage == CHOOSE n \in 0..8 :
    /\ \A d \in PageData : Len(d) <= n
    /\ \E d \in PageData : Len(d) = n

\* A bound on the number of steps a traversal under a ceiling L > 0 has left:
\* per page still allowed one fetch, its messages and one resumption, then
\* the messages collected for the final ascending pass.
StepsLeft ==
    IF pc = "done" THEN 0
    ELSE IF ended # "no" THEN Len(collected) - pos
    ELSE LongestPage * page_limit + 1
         + (page_limit - page_count) * (LongestPage + 3)
         + (CASE pc = "pages" -> LongestPage + 2
              [] pc = "yield" -> 1 + Len(detailed_page) - pos
              [] OTHER -> 1)

\* Some step of the traversal is possible: the guards of PagesCeiling and the
\* two fetch steps at "pages", of PagesResume at "resume", of YieldMessage at
\* "yield".
CanStep ==
    \/ pc = "pages" /\ (\/ page_limit # 0 /\ page_count >= page_limit
                        \/ stream_fetches < MaxFetches)
    \/ pc = "resume"
    \/ pc = "yield" /\ pos < Len(IF order = "asc" THEN collected ELSE detailed_page)

\* C7: with a ceiling L > 0 the traversal issues at most L fetches and then
\* is exhausted: every step lowers the bound StepsLeft, and a step is
\* possible as long as the traversal is not exhausted. With ceiling 0
\* iter_conversation_pages returns only on FAILURE or on a page without a
\* next cursor.
C7_CeilingBoundsFetches ==
    /\ [](page_limit > 0 =>
            /\ stream_fetches <= page_limit
            /\ StepsLeft >= 0
            /\ pc # "done" => CanStep)
    /\ [][page_limit > 0 => StepsLeft' < StepsLeft]_vars
    /\ []((page_limit = 0 /\ ended # "no") => ended \in {"failure", "no_next"})

\* C7 witness: a ceiling of 2 ended a traversal whose second page still
\* carried a next cursor.
C7_Witness ==
    /\ page_limit = 2
    /\ stream_fetches = 2
    /\ paging_next \in Urls
    /\ ended = "ceiling"
    /\ pc = "done"

\* C9: in ascending mode no fetch happens once a message has been yielded,
\* and iter_conversation_pages has returned before the first message.
C9_AscendingFetchesBeforeYield ==
    /\ []((order = "asc" /\ yielded # <<>>) => ended # "no")
    /\ [][(order = "asc" /\ yielded # <<>>)
            => stream_fetches' = stream_fetches]_vars

\* C9 witness: an ascending traversal of two pages that has yielded its
\* first message and has more to yield.
C9_Witness ==
    /\ order = "asc"
    /\ Len(fetched_pages) = 2
    /\ Len(yielded) = 1
    /\ pc = "yield"

\* ---------------------------------------------------------------------------
\* Malformed records
\* ---------------------------------------------------------------------------
\* The record is a mapping that carries a non-empty identifier.
HasIdentifier(r) == r.isdict /\ r.id # None /\ r.id # ""

\* C11: a malformed record never discards its page. Every record of a fetched
\* page with a non-empty identifier is in the output as often as it occurs in
\* the page (ascending streaming: in the exhausted traversal, as often as in
\* all fetched pages together; descending streaming: in the page's part of the
\* yielded sequence; fetch_page: in the cached Page), and a record without a
\* non-empty identifier is in no yielded sequence and no cached Page.
C11_MalformedRecordsSkippedOnly ==
    /\ \A m \in Range(yielded) : HasIdentifier(m)
    /\ (order = "asc" /\ pc = "done") =>
          \A r \in Range(Flatten(fetched_pages)) :
              HasIdentifier(r) =>
                  Count(yielded, r) = Count(Flatten(fetched_pages), r)
    /\ (order = "desc" /\ pc # "idle") =>
          \A i \in 1..Len(fetched_pages) :
              Len(yielded) >= ValidBefore(i) =>
                  \A r \in Range(fetched_pages[i]) :
                      HasIdentifier(r) =>
                          Count(Segment(i), r) = Count(fetched_pages[i], r)
    /\ \A c \in DOMAIN self_cache :
          /\ \A m \in Range(self_cache[c].messages) : HasIdentifier(m)
          /\ \A r \in Range(served[c].data) :
                HasIdentifier(r) =>
                    Count(self_cache[c].messages, r) = Count(served[c].data, r)

\* C11 witness: an exhausted traversal that fetched the same message in two
\* pages and a page with malformed records around a valid one, and yielded
\* the valid record and both copies.
C11_Witness ==
    /\ pc = "done"
    /\ \E i \in 1..Len(fetched_pages) :
          fetched_pages[i] = <<BadNotDict, MsgF, BadNoId>>
    /\ Count(yielded, MsgF) = 1
    /\ Count(yielded, MsgA) = 2

\* ---------------------------------------------------------------------------
\* Failure in a streaming traversal
\* ---------------------------------------------------------------------------
\* C16: no retry on failure in streaming traversal. Once a page fetch has
\* answered FAILURE, no step of the traversal fetches again and nothing
\* yielded is taken back; the traversal has no page loop left to run (it is
\* exhausted, or in ascending mode handing out the sorted messages); the
\* exhausted ascending traversal has yielded the valid messages of the pages
\* fetched before the failure in ascending key order, and the descending one
\* has yielded every page fetched before the failure in full.
C16_NoRetryAfterFailure ==
    [][ /\ ended = "failure" =>
              /\ stream_fetches' = stream_fetches
              /\ fetched_pages' = fetched_pages
              /\ ended' = "failure"
              /\ Len(yielded') >= Len(yielded)
              /\ SubSeq(yielded', 1, Len(yielded)) = yielded
        /\ ended' = "failure" =>
              /\ pc' \in {"yield", "done"}
              /\ pc' = "yield" => order' = "asc"
              /\ (order' = "asc" /\ pc' = "done") =>
                    /\ IsPermutation(yielded', ValidRecords(Flatten(fetched_pages')))
                    /\ SortedAscending(yielded')
              /\ order' = "desc" =>
                    yielded' = Flatten([i \in 1..Len(fetched_pages') |->
                                           DescPageYield(fetched_pages'[i])])
      ]_vars

\* C16 witness: an ascending traversal whose second fetch failed has handed
\* out the messages of its first page, in order.
C16_Witness ==
    /\ ended = "failure"
    /\ order = "asc"
    /\ pc = "done"
    /\ stream_fetches = 2
    /\ fetched_pages = << <<MsgC, MsgD, MsgB>> >>
    /\ Len(yielded) = 3

\* ---------------------------------------------------------------------------
\* Lazy fetching in descending mode
\* ---------------------------------------------------------------------------
\* The generator is suspended at a yield: the consumer holds the message at
\* position pos of the current page and has not pulled again.
ConsumerHolds == pc \in {"yield", "resume"} /\ pos >= 1

\* C17: descending streaming mode fetches pages lazily one at a time. A fetch
\* is issued only when every message of every page fetched so far has been
\* yielded, and while the consumer holds the n-th message no fetch has been
\* issued beyond the page that holds it: that page is the last one fetched
\* and every fetch so far answered a page.
C17_DescendingFetchesLazily ==
    [][ order = "desc" =>
          /\ stream_fetches' # stream_fetches =>
                /\ stream_fetches' = stream_fetches + 1
                /\ Len(yielded) = ValidBefore(Len(fetched_pages))
                /\ yielded' = yielded
          /\ ConsumerHolds' =>
                /\ stream_fetches' = Len(fetched_pages')
                /\ Len(yielded') = (ValidBefore(Len(fetched_pages) - 1))' + pos'
                /\ yielded'[Len(yielded')] \in
                       Range(fetched_pages'[Len(fetched_pages')])
      ]_vars

\* C17 witness: the consumer holds the first message of the second page, of
\* which more are to come, and two fetches have been issued.
C17_Witness ==
    /\ order = "desc"
    /\ pc = "yield"
    /\ pos = 1
    /\ stream_fetches = 2
    /\ fetched_pages = << <<MsgD, MsgA>>, <<MsgC, MsgD, MsgB>> >>
    /\ Len(yielded) = 3

\* ---------------------------------------------------------------------------
\* A page ceiling that is not positive
\* ---------------------------------------------------------------------------
\* C20 (as claimed): a page ceiling that is not positive means unbounded in
\* both access modes. A pager built with page_limit <= 0 never answers None
\* because of the ceiling, and a streaming traversal with page_limit <= 0
\* never ends because of the ceiling: it fetches the first page and ends only
\* on FAILURE or on a page without a next cursor.
C20_NonPositiveCeilingUnbounded ==
    /\ (pc = "idle" /\ self_page_limit <= 0) => outcome # "ceiling"
    /\ (pc # "idle" /\ page_limit <= 0) =>
          /\ ended # "ceiling"
          /\ pc = "done" => stream_fetches >= 1

\* ---------------------------------------------------------------------------
\* Functions: properties
\* ---------------------------------------------------------------------------
\* C12: normalize_message(r) returns a message if and only if r is a mapping
\* carrying a non-empty identifier; the message it returns has the fields and
\* values of r, and the call leaves r as it was.
C12_NormalizeIffIdentified ==
    [][ fn = "normalize_message" =>
          /\ arg' = arg
          /\ (ret' # <<>>) <=> (arg.isdict /\ arg.id # None /\ arg.id # "")
          /\ ret' # <<>> =>
                /\ Len(ret') = 1
                /\ DOMAIN ret'[1] = DOMAIN arg
                /\ \A f \in DOMAIN arg : ret'[1][f] = arg[f]
      ]_vars

\* C12 witness: a mapping with an identifier and an unparsable timestamp has
\* been normalised to itself.
C12_Witness ==
    /\ fn = "normalize_message"
    /\ called
    /\ arg = MsgF
    /\ ret = <<MsgF>>

\* The message carries a timestamp that parse_created_time accepts.
HasRealTimestamp(m) == m.created_time \in DOMAIN ParsedTimes

\* The instant a message is ordered by: its timestamp, else the epoch.
Instant(m) == IF HasRealTimestamp(m) THEN ParsedTimes[m.created_time] ELSE EPOCH

\* a may stand before b in ascending order: earlier, or at the same instant
\* with an identifier that is not greater.
MayPrecede(a, b) ==
    \/ Instant(a) < Instant(b)
    \/ Instant(a) = Instant(b) /\ IdRank[a.id] <= IdRank[b.id]

\* C13 (as claimed): messages are ordered by (timestamp, identifier), the
\* whole order reversed in descending mode, and a message without a parsable
\* timestamp, ordered as if at the epoch, comes in ascending order before
\* every message with a real timestamp at or after the epoch.
C13_MissingTimestampBeforeEpoch ==
    (fn = "sort" /\ called) =>
        /\ IsPermutation(ret, arg.messages)
        /\ \A i, j \in 1..Len(ret) :
              i < j => IF arg.order = "asc" THEN MayPrecede(ret[i], ret[j])
                       ELSE MayPrecede(ret[j], ret[i])
        /\ arg.order = "asc" =>
              \A i, j \in 1..Len(ret) :
                  ( /\ ~HasRealTimestamp(ret[i])
                    /\ HasRealTimestamp(ret[j])
                    /\ Instant(ret[j]) >= EPOCH ) => i < j

\* C13: messages are ordered by (timestamp, identifier), the whole order
\* reversed in descending mode, where a message without a parsable timestamp
\* counts as timestamped at the epoch: in ascending order it comes before
\* every message with a real timestamp after the epoch and behind every one
\* with a real timestamp before the epoch, and against a message timestamped
\* exactly at the epoch, as among any messages of equal timestamp, the
\* identifier decides; the sorted list holds the same messages as its input.
C13_OrderedByEpochKey ==
    (fn = "sort" /\ called) =>
        /\ IsPermutation(ret, arg.messages)
        /\ \A i, j \in 1..Len(ret) :
              i < j => IF arg.order = "asc" THEN MayPrecede(ret[i], ret[j])
                       ELSE MayPrecede(ret[j], ret[i])
        /\ \A i, j \in 1..Len(ret) :
              ( /\ ~HasRealTimestamp(ret[i])
                /\ HasRealTimestamp(ret[j]) ) =>
                  /\ Instant(ret[j]) > EPOCH => (arg.order = "asc" <=> i < j)
                  /\ Instant(ret[j]) < EPOCH => (arg.order = "asc" <=> j < i)
                  /\ (Instant(ret[j]) = EPOCH /\ ret[i].id # ret[j].id) =>
                        ( (arg.order = "asc" <=> i < j)
                            <=> IdRank[ret[i].id] < IdRank[ret[j].id] )

\* C13 witness: an ascending sort has put a message without a parsable
\* timestamp behind a message timestamped exactly at the epoch that has the
\* smaller identifier, and before one timestamped after the epoch.
C13_Witness ==
    /\ fn = "sort"
    /\ called
    /\ arg.order = "asc"
    /\ arg.messages = <<MsgF, MsgB, MsgD>>
    /\ ret = <<MsgB, MsgF, MsgD>>

\* The candidates of a probed mapping, in the order text, body, message.
KeyCandidates(mapping) ==
    IF mapping.kind = "dict" THEN <<mapping.text, mapping.body, mapping.message>>
    ELSE <<>>

\* The candidates of the attachment entries: each entry's text, then its
\* payload's candidates.
RECURSIVE ItemCandidates(_)
ItemCandidates(items) ==
    IF items = <<>> THEN <<>>
    ELSE (IF Head(items).isdict
          THEN <<Head(items).text>> \o KeyCandidates(Head(items).payload)
          ELSE <<>>) \o ItemCandidates(Tail(items))

\* Every candidate of a record in the fixed probing order.
Candidates(data) ==
    <<data.message>>
        \o (IF data.text.kind = "str" THEN <<data.text.value>>
            ELSE KeyCandidates(data.text))
        \o (IF data.attachments.kind = "dict"
            THEN ItemCandidates(data.attachments.data) ELSE <<>>)

\* The candidate is a string that is not empty after trimming.
GivesText(c) == c # None /\ c # Number /\ strip[c] # ""

\* C15: extract_message_text returns the first string, trimmed, that is not
\* empty after trimming among the candidates probed in the fixed order
\* direct text, text container (a string, or the keys text, body, message),
\* then per attachment entry its text and its payload's text, body, message;
\* it returns no text when no candidate gives one. So a direct text wins
\* over an attachment payload text, and a record with nothing but an
\* attachment payload body returns that body trimmed.
C15_FirstNonEmptyCandidate ==
    (fn = "extract_message_text" /\ called) =>
        LET cs == Candidates(arg)
            hits == {i \in 1..Len(cs) : GivesText(cs[i])}
        IN  /\ hits = {} => ret = None
            /\ hits # {} =>
                  \E i \in hits :
                      /\ \A j \in hits : i <= j
                      /\ ret = strip[cs[i]]
            /\ GivesText(arg.message) => ret = strip[arg.message]

\* C15 witness: a record whose only text is an attachment payload's body,
\* behind a blank entry text, has given that body trimmed.
C15_Witness ==
    /\ fn = "extract_message_text"
    /\ called
    /\ ~GivesText(arg.message)
    /\ arg.text.kind = "absent"
    /\ arg.attachments.data =
          <<Item(TRUE, "  ", Probed("dict", None, None, " pb ", None))>>
    /\ ret = "pb"

\* The exchange is one of the four failure kinds: network error, non-2xx
\* response, non-JSON body, unexpected payload shape.
IsFailureKind(http) ==
    \/ http.network = "error"
    \/ http.status # 200
    \/ ~http.body.json
    \/ http.body.kind # "object"
    \/ http.body.messages \notin {"absent", "object"}

\* C18 (as claimed): fetch_conversation_page lets no exception escape and
\* answers the FAILURE value (None, None) for each of the four failure
\* kinds: network error, non-2xx response, non-JSON body, and a JSON body
\* that is no object or whose "messages" member is no object.
C18_FailureKindsAnswerFailure ==
    (fn = "fetch_conversation_page" /\ called) =>
        /\ ret.kind # "raise"
        /\ IsFailureKind(arg) => ret.kind = "failure"

\* ---------------------------------------------------------------------------
\* Console mode: properties
\* ---------------------------------------------------------------------------
\* C14: in console mode a fetch FAILURE while traversing one conversation
\* ends only that traversal. From an exhausted traversal that ended on a
\* failure main goes on to the next conversation id while there is one (and
\* returns only behind the last), the new traversal starts from scratch and
\* its first step fetches the first page; no traversal fetches anything but
\* the first page first; and once main has returned, every conversation id
\* has been traversed, each one behind a failed one with at least one fetch.
C14_FailureEndsOnlyItsConversation ==
    [][ /\ (main_pc = "loop" /\ pc = "done" /\ ended = "failure") =>
              IF conv_index < Len(ConversationIds)
              THEN /\ main_pc' = "loop"
                   /\ conv_index' = conv_index + 1
                   /\ pc' = "pages"
                   /\ url' = None
                   /\ page_count' = 0
                   /\ stream_fetches' = 0
                   /\ collected' = <<>>
                   /\ yielded' = <<>>
                   /\ ended' = "no"
                   /\ ~PageCeilingReached'
              ELSE main_pc' = "return"
        /\ stream_fetches' = 0 => url' = None
        /\ main_pc' = "return" =>
              /\ Len(conv_log') = Len(ConversationIds)
              /\ \A i \in 1..Len(conv_log') : conv_log'[i].id = ConversationIds[i]
              /\ \A i, j \in 1..Len(conv_log') :
                    (i < j /\ conv_log'[i].ended = "failure") =>
                        conv_log'[j].fetches >= 1
      ]_vars

\* C14 witness: main has returned behind three traversals, of which the
\* first ended on a failure at its second fetch and the later two fetched
\* pages to the end of their pagination.
C14_Witness ==
    /\ main_pc = "return"
    /\ Len(conv_log) = 3
    /\ conv_log[1].ended = "failure"
    /\ conv_log[1].fetches = 2
    /\ conv_log[2].ended = "no_next"
    /\ conv_log[3].ended = "no_next"
    /\ conv_log[3].fetches = 2

\* ---------------------------------------------------------------------------
\* ConversationPanel: properties
\* ---------------------------------------------------------------------------
\* C19 (as claimed): the page the panel has just put on display carries the
\* number 1 if it is the first page visited, the number of the page it was
\* navigated from plus 1 after a forward step, and max(that number - 1, 1)
\* after a backward step; page numbers are at least 1.
C19_NumberFromPredecessor ==
    loaded =>
        /\ page_number >= 1
        /\ last_step = "mount" => page_number = 1
        /\ last_step = "next" => page_number = from_number + 1
        /\ last_step = "previous" => page_number = Max(from_number - 1, 1)

\* C19: the first page visited is displayed with page number 1; a page (told
\* by its key, the first page's key standing for the null and the empty
\* cursor alike) is numbered when it is first displayed and shows that
\* number on every later visit; a page first displayed after a forward step
\* gets the number of the page it was navigated from plus 1; a backward step
\* only leads to a page that has its number already; a handler that displays
\* no page changes no number; page numbers are at least 1.
C19_NumberKeptFromFirstVisit ==
    [][ /\ \A k \in DOMAIN page_numbers :
              k \in DOMAIN page_numbers' /\ page_numbers'[k] = page_numbers[k]
        /\ \A k \in DOMAIN page_numbers' : page_numbers'[k] >= 1
        /\ ~loaded' => (page_numbers' = page_numbers /\ page_number' = page_number)
        /\ loaded' =>
              /\ page_number' = page_numbers'[current_key']
              /\ from_number' = page_number
              /\ last_step' = "mount" => page_number' = 1
              /\ current_key' \notin DOMAIN page_numbers =>
                    /\ last_step' # "previous"
                    /\ last_step' = "next" => page_number' = from_number' + 1
      ]_vars

\* C19 witness: Next on the page numbered 3 has led back to the page with
\* cursor u1, which is on display with the number 2 of its first visit.
C19_Witness ==
    /\ loaded
    /\ last_step = "next"
    /\ current_key = "u1"
    /\ from_number = 3
    /\ page_number = 2

\* ---------------------------------------------------------------------------
\* ConversationPager: cache and counter
\* ---------------------------------------------------------------------------
\* C21: in every reachable state of a ConversationPager the fetched-page
\* counter equals the number of cache entries, each cache entry's identifier
\* is the cursor it is keyed by, with a ceiling > 0 the cache never holds
\* more entries than the ceiling, and no step removes or replaces a cache
\* entry.
C21_CacheMatchesCounter ==
    [][ /\ self_fetched = Cardinality(DOMAIN self_cache)
        /\ self_fetched' = Cardinality(DOMAIN self_cache')
        /\ \A c \in DOMAIN self_cache' : self_cache'[c].identifier = c
        /\ self_page_limit' > 0 =>
              Cardinality(DOMAIN self_cache') <= self_page_limit'
        /\ \A c \in DOMAIN self_cache :
              c \in DOMAIN self_cache' /\ self_cache'[c] = self_cache[c]
      ]_vars

\* C21 witness: a pager with ceiling 2 holds two pages under the cursors
\* they were asked for, has counted two fetches, and has just refused a
\* third cursor.
C21_Witness ==
    /\ self_page_limit = 2
    /\ DOMAIN self_cache = {None, "u2"}
    /\ self_cache["u2"].identifier = "u2"
    /\ self_fetched = 2
    /\ outcome = "ceiling"
    /\ page_url = "u1"

\* ---------------------------------------------------------------------------
\* ConversationPanel: loading
\* ---------------------------------------------------------------------------
\* C22: backward navigation in the panel never reaches the server. Whenever
\* the Prev handler has run, the current page had a history link, the
\* cursor of the linked key was in the pager's cache, the pager answered
\* from the cache without a fetch, whatever its ceiling and whatever
\* failed before, and the cached page is the one now on display.
C22_PrevServedFromCache ==
    [][ last_step' = "previous" =>
          /\ DictGet(history_links, current_key, None) # None
          /\ LET target == identifier_from_key(history_links[current_key])
             IN  /\ target \in DOMAIN self_cache
                 /\ page_url' = target
                 /\ outcome' = "cached"
                 /\ result' = <<self_cache[target]>>
                 /\ current_page' = result'
                 /\ loaded'
          /\ fetch_calls' = fetch_calls
          /\ self_cache' = self_cache
          /\ self_fetched' = self_fetched
      ]_vars

\* C22 witness: the fetch of cursor u2 has failed, and Prev on the second
\* page has put the first page back on display from the cache.
C22_Witness ==
    /\ last_step = "previous"
    /\ loaded
    /\ outcome = "cached"
    /\ current_key = "__root__"
    /\ from_number = 2
    /\ page_number = 1
    /\ fetch_calls["u2"] = 1
    /\ fetch_ok["u2"] = 0

\* C23: a navigation step whose page load returns None, on a FAILURE or on
\* the ceiling, leaves the navigator's state as it was: the page on display
\* and its key, the history links, the page numbers and the number on
\* display are the same after the step as before it.
C23_NullLoadKeepsNavigatorState ==
    [][ (outcome' \in {"failure", "ceiling"} /\ result' = <<>>) =>
          /\ ~loaded'
          /\ current_page' = current_page
          /\ current_key' = current_key
          /\ history_links' = history_links
          /\ page_numbers' = page_numbers
          /\ page_number' = page_number
      ]_vars

\* C23 witness: with the second page on display the pager has refused the
\* next cursor at its ceiling; the second page is still on display as
\* page 2 and the Next button is disabled.
C23_Witness ==
    /\ last_step = "next"
    /\ ~loaded
    /\ outcome = "ceiling"
    /\ current_key = "u1"
    /\ current_page = <<self_cache["u1"]>>
    /\ page_number = 2
    /\ from_number = 2
    /\ next_disabled

====
